---- MODULE Spec2Model ----
(***************************************************************************)
(* A model of the KPI scraping tool: the scheduler and the run pipeline   *)
(* of main.py, the Authenticator of auth.py, the table parser of          *)
(* scraper.py and the settings window of gui.py.                           *)
(*                                                                         *)
(* These specifications share the module:                                  *)
(*   Spec        run_scheduled_scraping driving run_scraping_process       *)
(*   SpecFair    Spec with the fairness of a sequential program            *)
(*   SpecAuth    Authenticator.login over successive sessions that share   *)
(*               the cookie file                                           *)
(*   SpecScrape  KpiScraper.scrape_table_data on a page of tables          *)
(*   SpecGui     SettingsGUI.run and the threads its Run button starts     *)
(* Each keeps the variables of the other parts at their initial values.    *)
(***************************************************************************)
EXTENDS Integers, Sequences, FiniteSets, TLC

(***************************************************************************)
(* Bounds.  Time is counted in ticks; one poll of the inter-run wait       *)
(* (progress_window.read(timeout=1000), main.py:226) lasts at least one    *)
(* tick.  The code turns minutes into polls with a factor 60 (main.py:211) *)
(* and hours into a timedelta (main.py:191); the model keeps both          *)
(* conversions as multiplications with the scaled factors TicksPerMinute   *)
(* and MinutesPerHour so that a wait is a handful of polls.                *)
(***************************************************************************)
TicksPerMinute == 2
MinutesPerHour == 2
MaxInterval == 2
MaxHours == 1
MaxRunTicks == 2
MaxPollTicks == 2

VARIABLES
    \* ---- main.py: run_scheduled_scraping
    run_interval_minutes,   \* config.getint('Scheduler', 'run_interval_minutes')
    max_runtime_hours,      \* config.getint('Scheduler', 'max_runtime_hours')
    progress_window,        \* TRUE: a window object, FALSE: None
    now,                    \* datetime.now(), in ticks
    end_time,               \* start_time + timedelta(hours=max_runtime_hours)
    run_count,
    spc,                    \* position of run_scheduled_scraping
    wait_left,              \* iterations left of `for _ in range(wait_seconds)`
    next_run_time,
    success,                \* value returned by the last run_scraping_process
    outcome,                \* how run_scheduled_scraping ended
    sched_log,              \* the scheduler's log lines, as a set of tags
    pending,                \* event queued in the progress window
    \* ---- main.py: run_scraping_process
    rpc,                    \* position of run_scraping_process
    auth,                   \* TRUE once Authenticator(config) is bound
    driver,                 \* auth.driver: "none", "open", "closed"
    df_empty,               \* df.empty of the scraped DataFrame
    sent,                   \* outcome notifications sent by the current run
    ret,                    \* what run_scraping_process returns: "True", "False", "raise"
    failed_at,              \* the step of the try block that raised, or "none"
    steps,                  \* what the current/last run called and obtained
    \* ---- history of the schedule
    results,                \* values returned by the runs, in order
    run_started_at,         \* time at which the current/last run started
    run_finished_at,        \* time at which the last run returned
    polls,                  \* polls made by the current/last inter-run wait
    \* ---- auth.py: Authenticator
    apc,                    \* position of Authenticator.login
    session,                \* number of the Authenticator (browser session)
    a_driver,               \* self.driver: "none", "open", "closed"
    cookies_file,           \* cookies.pkl: "absent", "corrupt", or the session whose cookies it holds
    browser_cookies,        \* cookies of the driver: "fresh", or the session they came from
    login_url,              \* config.get('Scraper', 'login_url')
    target_url,             \* config.get('Scraper', 'target_url')
    current_url,            \* self.driver.current_url
    load_result,            \* value returned by load_cookies
    probe_url,              \* current_url read at auth.py:165
    manual_invoked,         \* manual_login has been called
    manual_result,          \* value returned by manual_login
    login_result,           \* value returned by login
    resumed,                \* input() has returned (auth.py:127)
    \* ---- scraper.py: KpiScraper
    page,                   \* the tables of driver.page_source
    kpc,                    \* position of scrape_table_data
    target_table,           \* index in tables of target_table
    df,                     \* the DataFrame scrape_table_data returns
    scrape_error,           \* the handler of scraper.py:80-82 has run
    dataframes,             \* the list scrape_multiple_tables returns
    \* ---- gui.py: SettingsGUI
    gpc,                    \* position of SettingsGUI.run: "off", "main", "progress", "exited"
    threads                 \* the threads started by the Run button, in order

schedVars == <<run_interval_minutes, max_runtime_hours, progress_window, now,
               end_time, run_count, spc, wait_left, next_run_time, success,
               outcome, sched_log, pending>>
runVars == <<rpc, auth, driver, df_empty, sent, ret, failed_at, steps>>
histVars == <<results, run_started_at, run_finished_at, polls>>

authVars == <<apc, session, a_driver, cookies_file, browser_cookies, login_url,
              target_url, current_url, load_result, probe_url, manual_invoked,
              manual_result, login_result, resumed>>

scrapeVars == <<page, kpc, target_table, df, scrape_error, dataframes>>

guiVars == <<gpc, threads>>

vars == <<schedVars, runVars, histVars, authVars, scrapeVars, guiVars>>

\* what the scheduler and the run pipeline leave alone
notSched == <<authVars, scrapeVars, guiVars>>
\* what the Authenticator leaves alone
notAuth == <<schedVars, runVars, histVars, scrapeVars, guiVars>>
\* what the scraper leaves alone
notScrape == <<schedVars, runVars, histVars, authVars, guiVars>>
\* what the settings window and its threads leave alone
notGui == <<schedVars, runVars, histVars, authVars, scrapeVars>>

----------------------------------------------------------------------------
(* main.py: run_scheduled_scraping                                         *)

\* wait_seconds = run_interval_minutes * 60 (main.py:211)
wait_seconds(minutes) == minutes * TicksPerMinute

\* timedelta(hours=max_runtime_hours) (main.py:191)
timedelta_hours(hours) == hours * MinutesPerHour * TicksPerMinute

\* IsCancelEvent that forgets the closed window (event None)
IsCancelEvent_ButtonOnly(event) == event = "-CANCEL_RUN-"

\* event in (None, '-CANCEL_RUN-') (main.py:227)
IsCancelEvent(event) == event \in {"None", "-CANCEL_RUN-"}

\* before run_scheduled_scraping is called
SchedRest ==
    /\ now = 0
    /\ end_time = 0
    /\ run_count = 0
    /\ spc = "idle"
    /\ wait_left = 0
    /\ next_run_time = 0
    /\ success = FALSE
    /\ outcome = "none"
    /\ sched_log = {}
    /\ pending = "none"
    /\ rpc = "idle"
    /\ auth = FALSE
    /\ driver = "none"
    /\ df_empty = TRUE
    /\ sent = {}
    /\ ret = "none"
    /\ failed_at = "none"
    /\ steps = {}
    /\ results = <<>>
    /\ run_started_at = 0
    /\ run_finished_at = 0
    /\ polls = 0

\* the configuration and the progress window run_scheduled_scraping is called with
SchedInit ==
    /\ run_interval_minutes \in 0..MaxInterval
    /\ max_runtime_hours \in 0..MaxHours
    /\ progress_window \in BOOLEAN
    /\ SchedRest

\* the scheduler is not used
SchedIdle ==
    /\ run_interval_minutes = 0
    /\ max_runtime_hours = 0
    /\ progress_window = FALSE
    /\ SchedRest

\* main.py:186-193: read the configuration, fix the deadline, run_count = 0
SchedStart ==
    /\ spc = "idle"
    /\ end_time' = now + timedelta_hours(max_runtime_hours)
    /\ run_count' = 0
    /\ spc' = "while"
    /\ UNCHANGED <<run_interval_minutes, max_runtime_hours, progress_window, now,
                   wait_left, next_run_time, success, outcome, sched_log, pending>>
    /\ UNCHANGED <<runVars, histVars>>
    /\ UNCHANGED notSched

\* main.py:235-238: the lines after the while loop, reached by loop exit and by break
AfterLoop(log) == log \cup {"schedule_completed"}

\* SchedStartRun that still starts a run at the deadline itself
SchedStartRun_AtDeadline ==
    /\ spc = "while"
    /\ now <= end_time
    /\ run_count' = run_count + 1
    /\ spc' = "run"
    /\ rpc' = "start"
    /\ auth' = FALSE
    /\ driver' = "none"
    /\ sent' = {}
    /\ df_empty' = TRUE
    /\ ret' = "none"
    /\ failed_at' = "none"
    /\ steps' = {}
    /\ run_started_at' = now
    /\ UNCHANGED <<run_interval_minutes, max_runtime_hours, progress_window, now,
                   end_time, wait_left, next_run_time, success, outcome,
                   sched_log, pending>>
    /\ UNCHANGED <<results, run_finished_at, polls>>
    /\ UNCHANGED notSched

\* main.py:194-202: the loop condition holds, the next run is called
SchedStartRun ==
    /\ spc = "while"
    /\ now < end_time
    /\ run_count' = run_count + 1
    /\ spc' = "run"
    /\ rpc' = "start"
    /\ auth' = FALSE
    /\ driver' = "none"
    /\ sent' = {}
    /\ df_empty' = TRUE
    /\ ret' = "none"
    /\ failed_at' = "none"
    /\ steps' = {}
    /\ run_started_at' = now
    /\ UNCHANGED <<run_interval_minutes, max_runtime_hours, progress_window, now,
                   end_time, wait_left, next_run_time, success, outcome,
                   sched_log, pending>>
    /\ UNCHANGED <<results, run_finished_at, polls>>
    /\ UNCHANGED notSched

\* main.py:194, 235-238: the loop condition fails, the schedule completes
SchedLoopExit ==
    /\ spc = "while"
    /\ ~(now < end_time)
    /\ sched_log' = AfterLoop(sched_log)
    /\ outcome' = "Completed"
    /\ spc' = "done"
    /\ UNCHANGED <<run_interval_minutes, max_runtime_hours, progress_window, now,
                   end_time, run_count, wait_left, next_run_time, success, pending>>
    /\ UNCHANGED <<runVars, histVars>>
    /\ UNCHANGED notSched

\* SchedAbort without the break of main.py:208: the loop goes on after a failed run
SchedAbort_NoBreak ==
    /\ spc = "after_run"
    /\ ~success
    /\ sched_log' = sched_log \cup {"run_failed_abort"}
    /\ spc' = "while"
    /\ UNCHANGED <<run_interval_minutes, max_runtime_hours, progress_window, now,
                   end_time, run_count, wait_left, next_run_time, success,
                   outcome, pending>>
    /\ UNCHANGED <<runVars, histVars>>
    /\ UNCHANGED notSched

\* main.py:204-208, 235-238: the run failed: log, break, then the lines after the loop
SchedAbort ==
    /\ spc = "after_run"
    /\ ~success
    /\ sched_log' = AfterLoop(sched_log \cup {"run_failed_abort"})
    /\ outcome' = "Aborted"
    /\ spc' = "done"
    /\ UNCHANGED <<run_interval_minutes, max_runtime_hours, progress_window, now,
                   end_time, run_count, wait_left, next_run_time, success, pending>>
    /\ UNCHANGED <<runVars, histVars>>
    /\ UNCHANGED notSched

\* PastDeadline with the check of main.py:214 left out
PastDeadline_Never(next, end) == FALSE

\* main.py:214: next_run_time > end_time
PastDeadline(next, end) == next > end

\* main.py:210-218, 235-238: the next run would start past the deadline
SchedDeadlineStop ==
    /\ spc = "after_run"
    /\ success
    /\ next_run_time' = now + wait_seconds(run_interval_minutes)
    /\ PastDeadline(next_run_time', end_time)
    /\ sched_log' = AfterLoop(sched_log \cup {"max_runtime_reached"})
    /\ outcome' = "Completed"
    /\ spc' = "done"
    /\ UNCHANGED <<run_interval_minutes, max_runtime_hours, progress_window, now,
                   end_time, run_count, wait_left, success, pending>>
    /\ UNCHANGED <<runVars, histVars>>
    /\ UNCHANGED notSched

\* main.py:210-225: the wait begins; with wait_seconds = 0 the for loop has no
\* iteration and control is back at the loop condition
SchedBeginWait ==
    /\ spc = "after_run"
    /\ success
    /\ next_run_time' = now + wait_seconds(run_interval_minutes)
    /\ ~PastDeadline(next_run_time', end_time)
    /\ wait_left' = wait_seconds(run_interval_minutes)
    /\ spc' = IF wait_left' = 0 THEN "while" ELSE "wait"
    /\ polls' = 0
    /\ UNCHANGED <<run_interval_minutes, max_runtime_hours, progress_window, now,
                   end_time, run_count, success, outcome, sched_log, pending>>
    /\ UNCHANGED <<runVars, results, run_started_at, run_finished_at>>
    /\ UNCHANGED notSched

\* main.py:226, 240-244: progress_window is None: None.read raises AttributeError,
\* which the handler of run_scheduled_scraping logs
SchedPollNoWindow ==
    /\ spc = "wait"
    /\ ~progress_window
    /\ sched_log' = sched_log \cup {"schedule_error"}
    /\ outcome' = "Error"
    /\ spc' = "done"
    /\ UNCHANGED <<run_interval_minutes, max_runtime_hours, progress_window, now,
                   end_time, run_count, wait_left, next_run_time, success, pending>>
    /\ UNCHANGED <<runVars, histVars>>
    /\ UNCHANGED notSched

\* main.py:226-231: the poll returns a queued cancellation event: return
SchedPollCancel ==
    /\ spc = "wait"
    /\ progress_window
    /\ IsCancelEvent(pending)
    /\ pending' = "none"
    /\ polls' = polls + 1
    /\ sched_log' = sched_log \cup {"schedule_cancelled"}
    /\ outcome' = "Cancelled"
    /\ spc' = "done"
    /\ UNCHANGED <<run_interval_minutes, max_runtime_hours, progress_window, now,
                   end_time, run_count, wait_left, next_run_time, success>>
    /\ UNCHANGED <<runVars, results, run_started_at, run_finished_at>>
    /\ UNCHANGED notSched

\* DeadlineReached that ends the wait at its first poll
DeadlineReached_Always(t, end) == TRUE

\* DeadlineReached that lets the wait run to its last poll
DeadlineReached_Never(t, end) == FALSE

\* main.py:232: datetime.now() >= end_time
DeadlineReached(t, end) == t >= end

\* main.py:226-233: the poll times out after at least one tick; the wait ends
\* when the deadline is reached or the last iteration is done
SchedPollTimeout ==
    /\ spc = "wait"
    /\ progress_window
    /\ ~IsCancelEvent(pending)
    /\ \E d \in 1..MaxPollTicks : now' = now + d
    /\ polls' = polls + 1
    /\ wait_left' = wait_left - 1
    /\ spc' = IF DeadlineReached(now', end_time) \/ wait_left' = 0
              THEN "while" ELSE "wait"
    /\ UNCHANGED <<run_interval_minutes, max_runtime_hours, progress_window,
                   end_time, run_count, next_run_time, success, outcome,
                   sched_log, pending>>
    /\ UNCHANGED <<runVars, results, run_started_at, run_finished_at>>
    /\ UNCHANGED notSched

\* gui.py:171: the cancel button of the progress window is pressed, or the
\* window is closed; the event stays queued until the next read
UserCancel ==
    /\ progress_window
    /\ spc \in {"while", "run", "after_run", "wait"}
    /\ pending = "none"
    /\ pending' \in {"None", "-CANCEL_RUN-"}
    /\ UNCHANGED <<run_interval_minutes, max_runtime_hours, progress_window, now,
                   end_time, run_count, spc, wait_left, next_run_time, success,
                   outcome, sched_log>>
    /\ UNCHANGED <<runVars, histVars>>
    /\ UNCHANGED notSched

----------------------------------------------------------------------------
(* main.py: run_scraping_process, called at main.py:202                    *)

\* auth.py:143-176 as seen by its caller: the value login() returns and the
\* state it leaves the driver in.  setup_driver may fail before or after
\* webdriver.Chrome assigned self.driver; every later path has a driver.
LoginOutcomes ==
    { [ok |-> TRUE,  driver |-> "open"],
      [ok |-> FALSE, driver |-> "open"],
      [ok |-> FALSE, driver |-> "none"] }

\* main.py:74-86: auth = None, progress update, auth = Authenticator(config)
RunBegin ==
    /\ spc = "run" /\ rpc = "start"
    /\ auth' = TRUE
    /\ rpc' = "login"
    /\ UNCHANGED <<schedVars, histVars, driver, df_empty, sent, ret, failed_at>>
    /\ UNCHANGED notSched
    /\ UNCHANGED steps

\* main.py:87-96: auth.login() returns True
RunLoginOk ==
    /\ spc = "run" /\ rpc = "login"
    /\ \E o \in LoginOutcomes : o.ok /\ driver' = o.driver
    /\ rpc' = "scrape"
    /\ UNCHANGED <<schedVars, histVars, auth, df_empty, sent, ret, failed_at>>
    /\ UNCHANGED notSched
    /\ steps' = steps \cup {"login"}

\* main.py:87-88: auth.login() returns False: raise
RunLoginFail ==
    /\ spc = "run" /\ rpc = "login"
    /\ \E o \in LoginOutcomes : ~o.ok /\ driver' = o.driver
    /\ rpc' = "except"
    /\ failed_at' = "login"
    /\ UNCHANGED <<schedVars, histVars, auth, df_empty, sent, ret>>
    /\ UNCHANGED notSched
    /\ UNCHANGED steps

\* main.py:99-112: scrape_kpi_data returns a DataFrame; an empty one raises
RunScrape ==
    /\ spc = "run" /\ rpc = "scrape"
    /\ df_empty' \in BOOLEAN
    /\ rpc' = IF df_empty' THEN "except" ELSE "export"
    /\ failed_at' = IF df_empty' THEN "empty" ELSE failed_at
    /\ UNCHANGED <<schedVars, histVars, auth, driver, sent, ret>>
    /\ UNCHANGED notSched
    /\ steps' = steps \cup (IF df_empty' THEN {"scrape_called"}
                               ELSE {"scrape_called", "data"})

\* main.py:115-127: write_to_excel returns a path, or None (excel_writer.py:98)
RunExport ==
    /\ spc = "run" /\ rpc = "export"
    /\ \E excel_filepath \in {"path", "None"} :
          /\ rpc' = IF excel_filepath = "None" THEN "except" ELSE "notify"
          /\ failed_at' = IF excel_filepath = "None" THEN "export" ELSE failed_at
          /\ steps' = steps \cup (IF excel_filepath = "None"
                                   THEN {"export_called"}
                                   ELSE {"export_called", "file"})
    /\ UNCHANGED <<schedVars, histVars, auth, driver, df_empty, sent, ret>>
    /\ UNCHANGED notSched

\* RunNotify in which a notification that is not delivered raises
RunNotify_Escalate ==
    /\ spc = "run" /\ rpc = "notify"
    /\ \E delivered \in BOOLEAN :
          /\ sent' = IF delivered THEN sent \cup {"success"} ELSE sent
          /\ rpc' = IF delivered THEN "finish" ELSE "except"
    /\ UNCHANGED <<schedVars, histVars, auth, driver, df_empty, ret, failed_at>>
    /\ UNCHANGED notSched
    /\ UNCHANGED steps

\* main.py:130-141: the success notification is sent; send_success_notification
\* returns False when delivery fails (slack_notifier.py:76-78, 108-109)
RunNotify ==
    /\ spc = "run" /\ rpc = "notify"
    /\ \E delivered \in BOOLEAN :
          sent' = IF delivered THEN sent \cup {"success"} ELSE sent
    /\ rpc' = "finish"
    /\ UNCHANGED <<schedVars, histVars, auth, driver, df_empty, ret, failed_at>>
    /\ UNCHANGED notSched
    /\ UNCHANGED steps

\* main.py:144-150: last progress update, return True
RunFinish ==
    /\ spc = "run" /\ rpc = "finish"
    /\ ret' = "True"
    /\ rpc' = "finally"
    /\ UNCHANGED <<schedVars, histVars, auth, driver, df_empty, sent,
                   failed_at>>
    /\ UNCHANGED notSched
    /\ UNCHANGED steps

\* An update of the progress window can raise only when there is a window and
\* it has been closed (the queued event is None)
ProgressUpdateMayRaise == progress_window /\ pending = "None"

\* main.py:80-83, 93-96, 109-112, 124-127, 144-147: a progress update inside
\* the try block raises; control passes to the except block
RunProgressRaise ==
    /\ spc = "run" /\ rpc \in {"start", "scrape", "export", "notify", "finish"}
    /\ ProgressUpdateMayRaise
    /\ rpc' = "except"
    /\ failed_at' = "progress"
    /\ UNCHANGED <<schedVars, histVars, auth, driver, df_empty, sent, ret>>
    /\ UNCHANGED notSched
    /\ UNCHANGED steps

\* main.py:152-176: the except block: the error notification is attempted
\* (its failure is caught, main.py:168-169), then return False
RunExcept ==
    /\ spc = "run" /\ rpc = "except"
    /\ \E delivered \in BOOLEAN :
          sent' = IF delivered THEN sent \cup {"error"} ELSE sent
    /\ ret' = "False"
    /\ rpc' = "finally"
    /\ UNCHANGED <<schedVars, histVars, auth, driver, df_empty, failed_at>>
    /\ UNCHANGED notSched
    /\ UNCHANGED steps

\* main.py:171-174: the progress update of the except block raises; the
\* exception leaves run_scraping_process
RunExceptRaise ==
    /\ spc = "run" /\ rpc = "except"
    /\ ProgressUpdateMayRaise
    /\ \E delivered \in BOOLEAN :
          sent' = IF delivered THEN sent \cup {"error"} ELSE sent
    /\ ret' = "raise"
    /\ rpc' = "finally"
    /\ UNCHANGED <<schedVars, histVars, auth, driver, df_empty, failed_at>>
    /\ UNCHANGED notSched
    /\ UNCHANGED steps

\* close that leaves the driver running
close_Noop(d) == d

\* auth.py:182-186: Authenticator.close quits the driver if there is one
\* (driver.quit() is taken to end the browser session)
close(d) == IF d = "open" THEN "closed" ELSE d

\* Finally without the call of auth.close()
Finally_NoClose(a, d) == d

\* main.py:178-181: the finally block
Finally(a, d) == IF a THEN close(d) ELSE d

\* main.py:178-181, 202: finally, then the value reaches the scheduler; the run
\* has taken at least one tick (time.sleep, auth.py:163, scraper.py:56)
RunReturn ==
    /\ spc = "run" /\ rpc = "finally" /\ ret \in {"True", "False"}
    /\ driver' = Finally(auth, driver)
    /\ \E d \in 1..MaxRunTicks : now' = now + d
    /\ run_finished_at' = now'
    /\ success' = (ret = "True")
    /\ results' = Append(results, success')
    /\ rpc' = "idle"
    /\ spc' = "after_run"
    /\ UNCHANGED <<run_interval_minutes, max_runtime_hours, progress_window,
                   end_time, run_count, wait_left, next_run_time, outcome,
                   sched_log, pending>>
    /\ UNCHANGED <<auth, df_empty, sent, ret, run_started_at, polls, failed_at>>
    /\ UNCHANGED notSched
    /\ UNCHANGED steps

\* main.py:178-181, 240-244: finally, then the exception reaches the handler of
\* run_scheduled_scraping
RunRaise ==
    /\ spc = "run" /\ rpc = "finally" /\ ret = "raise"
    /\ driver' = Finally(auth, driver)
    /\ \E d \in 1..MaxRunTicks : now' = now + d
    /\ run_finished_at' = now'
    /\ sched_log' = sched_log \cup {"schedule_error"}
    /\ outcome' = "Error"
    /\ rpc' = "idle"
    /\ spc' = "done"
    /\ UNCHANGED <<run_interval_minutes, max_runtime_hours, progress_window,
                   end_time, run_count, wait_left, next_run_time, success, pending>>
    /\ UNCHANGED <<auth, df_empty, sent, ret, results, run_started_at, polls,
                   failed_at>>
    /\ UNCHANGED notSched
    /\ UNCHANGED steps

----------------------------------------------------------------------------
(* auth.py: Authenticator.  URLs are sequences of one-character strings.   *)

MaxSessions == 2

U_login == <<"/", "l", "o", "g", "i", "n">>
U_LOGIN == <<"/", "L", "O", "G", "I", "N">>
U_Login_next == <<"/", "s", "s", "o", "/", "L", "o", "g", "i", "n", "?", "n">>
U_log_in == <<"/", "l", "o", "g", "/", "i", "n">>
U_kpi == <<"/", "k", "p", "i">>

\* the pages the site can leave the browser on
URLS == {U_login, U_LOGIN, U_Login_next, U_log_in, U_kpi}
\* values of login_url and target_url in config.ini
LOGIN_URLS == {U_login, U_log_in}
TARGET_URLS == {U_kpi}

NoUrl == <<>>

\* contents of cookies.pkl and of the browser's cookie store
Absent == <<"absent">>
Corrupt == <<"corrupt">>
Jar(s) == <<"jar", s>>
Fresh == <<"fresh">>

\* str.lower(), on the letters that occur in the URLs
LowerChar(c) ==
    CASE c = "L" -> "l"
      [] c = "O" -> "o"
      [] c = "G" -> "g"
      [] c = "I" -> "i"
      [] c = "N" -> "n"
      [] OTHER -> c

lower(str) == [i \in 1..Len(str) |-> LowerChar(str[i])]

\* sub in str
Contains(str, sub) ==
    \E i \in 0..(Len(str) - Len(sub)) : SubSeq(str, i + 1, i + Len(sub)) = sub

\* StillOnLogin that always rejects the restored session
StillOnLogin_Always(url) == TRUE

\* StillOnLogin without .lower()
StillOnLogin_CaseSensitive(url) == Contains(url, <<"l", "o", "g", "i", "n">>)

\* auth.py:165, negated: "login" in self.driver.current_url.lower()
StillOnLogin(url) == Contains(lower(url), <<"l", "o", "g", "i", "n">>)

\* LoginConfirmed that takes every resume for a completed login
LoginConfirmed_Always(cur, login) == TRUE

\* auth.py:131: current_url != login_url
LoginConfirmed(cur, login) == cur # login

AuthIdle ==
    /\ apc = "idle"
    /\ session = 0
    /\ a_driver = "none"
    /\ cookies_file = Absent
    /\ browser_cookies = Fresh
    /\ login_url = U_login
    /\ target_url = U_kpi
    /\ current_url = NoUrl
    /\ load_result = "none"
    /\ probe_url = NoUrl
    /\ manual_invoked = FALSE
    /\ manual_result = "none"
    /\ login_result = "none"
    /\ resumed = FALSE

\* the cookie file is absent, unreadable, or left by an earlier process
AuthInit ==
    /\ apc = "idle"
    /\ session = 0
    /\ a_driver = "none"
    /\ cookies_file \in {Absent, Corrupt, Jar(0)}
    /\ browser_cookies = Fresh
    /\ login_url \in LOGIN_URLS
    /\ target_url \in TARGET_URLS
    /\ current_url = NoUrl
    /\ load_result = "none"
    /\ probe_url = NoUrl
    /\ manual_invoked = FALSE
    /\ manual_result = "none"
    /\ login_result = "none"
    /\ resumed = FALSE

\* auth.py:26-35, 151-153: Authenticator(config), login() is entered
AuthNew ==
    /\ apc = "idle"
    /\ session < MaxSessions
    /\ session' = session + 1
    /\ apc' = "setup"
    /\ a_driver' = "none"
    /\ browser_cookies' = Fresh
    /\ current_url' = NoUrl
    /\ load_result' = "none"
    /\ probe_url' = NoUrl
    /\ manual_invoked' = FALSE
    /\ manual_result' = "none"
    /\ login_result' = "none"
    /\ UNCHANGED <<cookies_file, login_url, target_url>>
    /\ resumed' = FALSE
    /\ UNCHANGED notAuth

\* auth.py:37-64, 153: setup_driver returns True
AuthSetupOk ==
    /\ apc = "setup"
    /\ a_driver' = "open"
    /\ apc' = "load"
    /\ UNCHANGED <<session, cookies_file, browser_cookies, login_url, target_url,
                   current_url, load_result, probe_url, manual_invoked,
                   manual_result, login_result>>
    /\ UNCHANGED resumed
    /\ UNCHANGED notAuth

\* auth.py:39-68, 153-154: setup_driver raises before (driver None) or after
\* (driver set) line 57 and returns False; login returns False
AuthSetupFail ==
    /\ apc = "setup"
    /\ a_driver' \in {"none", "open"}
    /\ login_result' = "False"
    /\ apc' = "returned"
    /\ UNCHANGED <<session, cookies_file, browser_cookies, login_url, target_url,
                   current_url, load_result, probe_url, manual_invoked, manual_result>>
    /\ UNCHANGED resumed
    /\ UNCHANGED notAuth

\* auth.py:73-89: the file exists and unpickles; the browser is sent to
\* login_url and the cookies are added; load_cookies returns True
AuthLoadCookiesOk ==
    /\ apc = "load"
    /\ cookies_file \notin {Absent, Corrupt}
    /\ current_url' = login_url
    /\ browser_cookies' = cookies_file
    /\ load_result' = "True"
    /\ apc' = "check"
    /\ UNCHANGED <<session, a_driver, cookies_file, login_url, target_url,
                   probe_url, manual_invoked, manual_result, login_result>>
    /\ UNCHANGED resumed
    /\ UNCHANGED notAuth

\* auth.py:73, 90-92: no file; auth.py:74-75, 94-96: pickle.load raises;
\* auth.py:79, 94-96: driver.get(login_url) raises.  load_cookies returns False
AuthLoadCookiesFail ==
    /\ apc = "load"
    /\ load_result' = "False"
    /\ apc' = "manual"
    /\ UNCHANGED <<session, a_driver, cookies_file, browser_cookies, login_url,
                   target_url, current_url, probe_url, manual_invoked,
                   manual_result, login_result>>
    /\ UNCHANGED resumed
    /\ UNCHANGED notAuth

\* auth.py:159-169: the browser is sent to target_url and ends on some page;
\* without "login" in its URL login returns True, else manual login follows
AuthCheckSession ==
    /\ apc = "check"
    /\ \E u \in URLS :
        /\ current_url' = u
        /\ probe_url' = u
        /\ IF ~StillOnLogin(u)
           THEN login_result' = "True" /\ apc' = "returned"
           ELSE login_result' = login_result /\ apc' = "manual"
    /\ UNCHANGED <<session, a_driver, cookies_file, browser_cookies, login_url,
                   target_url, load_result, manual_invoked, manual_result>>
    /\ UNCHANGED resumed
    /\ UNCHANGED notAuth

\* auth.py:160, 174-176: driver.get(target_url) raises; login returns False
AuthCheckError ==
    /\ apc = "check"
    /\ login_result' = "False"
    /\ apc' = "returned"
    /\ UNCHANGED <<session, a_driver, cookies_file, browser_cookies, login_url,
                   target_url, current_url, load_result, probe_url,
                   manual_invoked, manual_result>>
    /\ UNCHANGED resumed
    /\ UNCHANGED notAuth

\* auth.py:172, 113-127: manual_login is called, sends the browser to
\* login_url and blocks in input()
AuthManualLogin ==
    /\ apc = "manual"
    /\ manual_invoked' = TRUE
    /\ current_url' = login_url
    /\ apc' = "input"
    /\ UNCHANGED <<session, a_driver, cookies_file, browser_cookies, login_url,
                   target_url, load_result, probe_url, manual_result, login_result>>
    /\ UNCHANGED resumed
    /\ UNCHANGED notAuth

\* auth.py:172, 115, 139-141: manual_login is called and driver.get(login_url)
\* raises; manual_login returns False, and so does login
AuthManualError ==
    /\ apc = "manual"
    /\ manual_invoked' = TRUE
    /\ manual_result' = "False"
    /\ login_result' = "False"
    /\ apc' = "returned"
    /\ UNCHANGED <<session, a_driver, cookies_file, browser_cookies, login_url,
                   target_url, current_url, load_result, probe_url>>
    /\ UNCHANGED resumed
    /\ UNCHANGED notAuth

\* auth.py:98-109: save_cookies: the file receives the cookies of this
\* session; or get_cookies / open raises and the file is as before; or
\* pickle.dump raises into the opened, truncated file
SaveCookiesFile(file, s) == {Jar(s), file, Corrupt}

\* auth.py:127-137, 172: input() returns; the URL the human left the browser
\* on decides: changed: save_cookies(), return True; unchanged: return False
AuthManualResume ==
    /\ apc = "input"
    /\ \E u \in URLS \cup {login_url} :
        /\ current_url' = u
        /\ IF LoginConfirmed(u, login_url)
           THEN /\ cookies_file' \in SaveCookiesFile(cookies_file, session)
                /\ manual_result' = "True"
           ELSE /\ cookies_file' = cookies_file
                /\ manual_result' = "False"
    /\ login_result' = manual_result'
    /\ apc' = "returned"
    /\ UNCHANGED <<session, a_driver, browser_cookies, login_url, target_url,
                   load_result, probe_url, manual_invoked>>
    /\ resumed' = TRUE
    /\ UNCHANGED notAuth

\* auth.py:182-186: close() quits the driver if there is one
AuthClose ==
    /\ apc = "returned"
    /\ a_driver' = close(a_driver)
    /\ apc' = "idle"
    /\ UNCHANGED <<session, cookies_file, browser_cookies, login_url, target_url,
                   current_url, load_result, probe_url, manual_invoked,
                   manual_result, login_result>>
    /\ UNCHANGED resumed
    /\ UNCHANGED notAuth

----------------------------------------------------------------------------
(* scraper.py: KpiScraper.  A page is the sequence of its <table> elements *)
(* in document order, a table the sequence of its <tr> rows, a row the     *)
(* sequence of its <td>/<th> cells, a cell its text, a text a sequence of  *)
(* one-character strings.                                                  *)

\* size of a page: its tables, rows and cells counted together
MaxPageSize == 9

T_blank == <<" ">>
T_a == <<" ", "a", " ">>

\* the texts a cell can hold
CellTexts == {T_blank, T_a}

IsSpace(c) == c = " "

RECURSIVE lstrip(_)
lstrip(str) ==
    IF str # <<>> /\ IsSpace(Head(str)) THEN lstrip(Tail(str)) ELSE str

RECURSIVE rstrip(_)
rstrip(str) ==
    IF str # <<>> /\ IsSpace(str[Len(str)])
    THEN rstrip(SubSeq(str, 1, Len(str) - 1))
    ELSE str

\* scraper.py:106, 116: get_text(strip=True) of a cell
get_text(cell) == rstrip(lstrip(cell))

\* pd.DataFrame() (scraper.py:69, 82, 99, 136)
EmptyDataFrame == [columns |-> <<>>, rows |-> <<>>]

\* Placeholder that counts the cells from 0
Placeholder_ZeroBased(n) == <<"#", ToString(n - 1)>>

\* scraper.py:107: the f-string made of the character U+5217 ("column"),
\* written "#" here, and the number len(headers)+1
Placeholder(n) == <<"#", ToString(n)>>

\* scraper.py:105-107: the header of the i-th cell of the first row; when it
\* is appended len(headers) = i - 1
Header(cells, i) ==
    IF get_text(cells[i]) # <<>> THEN get_text(cells[i]) ELSE Placeholder(i)

Headers(header_row) == [i \in 1..Len(header_row) |-> Header(header_row, i)]

\* scraper.py:113-117: the texts of the cells of a data row
RowData(row) == [i \in 1..Len(row) |-> get_text(row[i])]

\* Pad that leaves short rows as they are
Pad_None(row_data, width) == row_data

\* scraper.py:120-121: while len(row_data) < len(headers): row_data.append('')
RECURSIVE Pad(_, _)
Pad(row_data, width) ==
    IF Len(row_data) < width THEN Pad(Append(row_data, <<>>), width) ELSE row_data

\* scraper.py:124: row_data[:len(headers)]
Truncate(row_data, width) ==
    SubSeq(row_data, 1, IF Len(row_data) < width THEN Len(row_data) ELSE width)

\* scraper.py:111-124: the loop over rows[1:]
RECURSIVE DataRows(_, _)
DataRows(rows, width) ==
    IF rows = <<>> THEN <<>>
    ELSE LET row_data == Pad(RowData(Head(rows)), width)
         IN  (IF row_data # <<>> THEN <<Truncate(row_data, width)>> ELSE <<>>)
             \o DataRows(Tail(rows), width)

\* pandas: a str cell is never NA
notna(cell) == TRUE

\* scraper.py:130: df.dropna(how='all') keeps the rows with a non-NA cell
dropna_all(frame) ==
    [frame EXCEPT !.rows =
        SelectSeq(frame.rows, LAMBDA r : \E i \in 1..Len(r) : notna(r[i]))]

\* scraper.py:127: pd.DataFrame(data_rows, columns=headers) raises ValueError
\* when a row and the columns differ in length
DataFrameRaises(data_rows, headers) ==
    \E j \in 1..Len(data_rows) : Len(data_rows[j]) # Len(headers)

\* scraper.py:94-136: _parse_table_to_dataframe
parse_table_to_dataframe(table) ==
    IF table = <<>> THEN EmptyDataFrame
    ELSE LET headers == Headers(table[1])
             data_rows == DataRows(Tail(table), Len(headers))
         IN  IF DataFrameRaises(data_rows, headers)
             THEN EmptyDataFrame
             ELSE dropna_all([columns |-> headers, rows |-> data_rows])

\* KeyGreater under which the last of equal tables wins
KeyGreater_OrEqual(a, b) == Len(a) >= Len(b)

\* max(): a later element replaces the best one when its key is greater;
\* the key is len(t.find_all('tr')) (scraper.py:72)
KeyGreater(a, b) == Len(a) > Len(b)

RECURSIVE MaxFrom(_, _, _)
MaxFrom(tables, i, best) ==
    IF i > Len(tables) THEN best
    ELSE MaxFrom(tables, i + 1,
                 IF KeyGreater(tables[i], tables[best]) THEN i ELSE best)

\* max_table that takes the first table of the page
max_table_First(tables) == 1

\* scraper.py:72: index in tables of max(tables, key=...)
max_table(tables) == MaxFrom(tables, 2, 1)

RECURSIVE SumLen(_)
SumLen(seqs) == IF seqs = <<>> THEN 0 ELSE Len(Head(seqs)) + SumLen(Tail(seqs))

RECURSIVE PageSize(_)
PageSize(pg) ==
    IF pg = <<>> THEN 0
    ELSE 1 + Len(Head(pg)) + SumLen(Head(pg)) + PageSize(Tail(pg))

ScrapeIdle ==
    /\ page = <<>>
    /\ kpc = "idle"
    /\ target_table = 0
    /\ df = EmptyDataFrame
    /\ scrape_error = FALSE
    /\ dataframes = <<>>

T_Date == <<"D", "a", "t", "e">>
T_Revenue == <<" ", "R", "e", "v", "e", "n", "u", "e", " ">>

\* the data rows of the report page: two cells, one cell, three cells
ScenarioRows == {<<T_a, T_a>>, <<T_a>>, <<T_blank, T_a, T_a>>}

\* report pages of two tables: one of 2 rows, then one of 9 rows whose first
\* row is Date, Revenue
ScenarioPages ==
    { << << <<T_a>>, <<T_a>> >>,
         << <<T_Date, T_Revenue>> >> \o [k \in 1..8 |-> f[k]] >> :
      f \in [1..8 -> ScenarioRows] }

\* the page the site will render: still without a table, or a report page
ScrapeInit ==
    /\ page \in {<<>>} \cup ScenarioPages
    /\ kpc = "render"
    /\ target_table = 0
    /\ df = EmptyDataFrame
    /\ scrape_error = FALSE
    /\ dataframes = <<>>

\* the site renders one more <table>
PageAddTable ==
    /\ kpc = "render"
    /\ PageSize(page) < MaxPageSize
    /\ page' = Append(page, <<>>)
    /\ UNCHANGED <<kpc, target_table, df, scrape_error, dataframes>>
    /\ UNCHANGED notScrape

\* the site renders one more <tr> in the last table
PageAddRow ==
    /\ kpc = "render"
    /\ PageSize(page) < MaxPageSize
    /\ page # <<>>
    /\ page' = [page EXCEPT ![Len(page)] = Append(@, <<>>)]
    /\ UNCHANGED <<kpc, target_table, df, scrape_error, dataframes>>
    /\ UNCHANGED notScrape

\* the site renders one more cell in the last row of the last table
PageAddCell ==
    /\ kpc = "render"
    /\ PageSize(page) < MaxPageSize
    /\ page # <<>>
    /\ page[Len(page)] # <<>>
    /\ \E text \in CellTexts :
          page' = [page EXCEPT ![Len(page)] =
                      [@ EXCEPT ![Len(@)] = Append(@, text)]]
    /\ UNCHANGED <<kpc, target_table, df, scrape_error, dataframes>>
    /\ UNCHANGED notScrape

\* pandas: df.empty, true when the frame has no row or no column
empty(frame) == frame.rows = <<>> \/ frame.columns = <<>>

\* main.py:101-106: what run_scraping_process makes of the DataFrame that
\* scrape_kpi_data returned: the "no data" exception, or the run goes on
RunResult(frame) == IF empty(frame) THEN "EmptyData" ELSE "Success"

\* ScrapeTimeout whose handler lets the error reach the caller
ScrapeTimeout_Raise ==
    /\ kpc = "render"
    /\ page = <<>>
    /\ scrape_error' = TRUE
    /\ df' = EmptyDataFrame
    /\ kpc' = "raised"
    /\ UNCHANGED <<page, target_table, dataframes>>
    /\ UNCHANGED notScrape

\* scraper.py:44-53, 80-82: no <table> appears within the timeout:
\* WebDriverWait raises, the handler returns an empty DataFrame
ScrapeTimeout ==
    /\ kpc = "render"
    /\ page = <<>>
    /\ scrape_error' = TRUE
    /\ df' = EmptyDataFrame
    /\ kpc' = "done"
    /\ UNCHANGED <<page, target_table, dataframes>>
    /\ UNCHANGED notScrape

\* scraper.py:44-78: a table is present: the largest one is parsed
ScrapeTableData ==
    /\ kpc = "render"
    /\ page # <<>>
    /\ target_table' = max_table(page)
    /\ df' = parse_table_to_dataframe(page[target_table'])
    /\ kpc' = "done"
    /\ UNCHANGED <<page, scrape_error, dataframes>>
    /\ UNCHANGED notScrape

\* scrape_multiple_tables that keeps the DataFrame of every table
scrape_multiple_tables_All(tables) ==
    [i \in 1..Len(tables) |-> parse_table_to_dataframe(tables[i])]

\* scraper.py:183-188: every table is parsed, in document order; the
\* DataFrames that are not empty are appended to the list
scrape_multiple_tables(tables) ==
    SelectSeq([i \in 1..Len(tables) |-> parse_table_to_dataframe(tables[i])],
              LAMBDA frame : ~empty(frame))

\* scraper.py:163-172, 193-195: no <table> appears within the timeout: the
\* handler of scrape_multiple_tables returns an empty list
ScrapeMultipleTimeout ==
    /\ kpc = "render"
    /\ page = <<>>
    /\ scrape_error' = TRUE
    /\ dataframes' = <<>>
    /\ kpc' = "listed"
    /\ UNCHANGED <<page, target_table, df>>
    /\ UNCHANGED notScrape

\* scraper.py:163-191: scrape_multiple_tables on a page with a table
ScrapeMultipleTables ==
    /\ kpc = "render"
    /\ page # <<>>
    /\ dataframes' = scrape_multiple_tables(page)
    /\ kpc' = "listed"
    /\ UNCHANGED <<page, target_table, df, scrape_error>>
    /\ UNCHANGED notScrape

----------------------------------------------------------------------------
(* gui.py: SettingsGUI.run.  The Run button starts run_scraping_process in *)
(* a daemon thread and shows a progress window; each thread is a record of *)
(* its position, its Authenticator, its driver and its progress window.    *)

\* presses of the Run button
MaxRuns == 3

\* the GUI has not been started (main.py --config)
GuiIdle ==
    /\ gpc = "off"
    /\ threads = <<>>

\* gui.py:254-258: the main window is shown
GuiInit ==
    /\ gpc = "main"
    /\ threads = <<>>

\* gui.py:291-293: thread = threading.Thread(target=self.run_scraping, ...)
NewThread == [pc |-> "start", auth |-> FALSE, driver |-> "none", win |-> "open"]

\* gui.py:282-297: event '-RUN-': the progress window is created, the thread
\* started, and the handler enters the loop of the progress window
GuiRun ==
    /\ gpc = "main"
    /\ Len(threads) < MaxRuns
    /\ threads' = Append(threads, NewThread)
    /\ gpc' = "progress"
    /\ UNCHANGED notGui

\* gui.py:297-300, 306: WIN_CLOSED or '-CANCEL_RUN-': break, then
\* progress_window.close(); nothing is done to the thread
GuiCancelRun ==
    /\ gpc = "progress"
    /\ \E prog_event \in {"None", "-CANCEL_RUN-"} : IsCancelEvent(prog_event)
    /\ threads' = [threads EXCEPT ![Len(threads)].win = "closed"]
    /\ gpc' = "main"
    /\ UNCHANGED notGui

\* gui.py:302-306: the thread is not alive any more: break, close
GuiThreadOver ==
    /\ gpc = "progress"
    /\ threads[Len(threads)].pc = "dead"
    /\ threads' = [threads EXCEPT ![Len(threads)].win = "closed"]
    /\ gpc' = "main"
    /\ UNCHANGED notGui

\* gui.py:261-262, 308, main.py:268-270: WIN_CLOSED or '-CANCEL-' in the main
\* window: run() and main() return and the process ends; a daemon thread that
\* is still alive stops where it is
GuiExit ==
    /\ gpc = "main"
    /\ gpc' = "exited"
    /\ threads' = [t \in 1..Len(threads) |->
                     IF threads[t].pc = "dead" THEN threads[t]
                     ELSE [threads[t] EXCEPT !.pc = "killed"]]
    /\ UNCHANGED notGui

\* gui.py:228-239, main.py:74-86: the thread binds auth = Authenticator(config)
ThreadBegin(t) ==
    /\ gpc \in {"main", "progress"}
    /\ threads[t].pc = "start"
    /\ threads' = [threads EXCEPT ![t].pc = "login", ![t].auth = TRUE]
    /\ UNCHANGED gpc
    /\ UNCHANGED notGui

\* main.py:87-88: auth.login() returns, with the driver it has left
ThreadLogin(t) ==
    /\ gpc \in {"main", "progress"}
    /\ threads[t].pc = "login"
    /\ \E o \in LoginOutcomes :
          threads' = [threads EXCEPT ![t].driver = o.driver,
                                     ![t].pc = IF o.ok THEN "work" ELSE "finally"]
    /\ UNCHANGED gpc
    /\ UNCHANGED notGui

\* main.py:98-176: scraping, export and notification, to return or except
ThreadWork(t) ==
    /\ gpc \in {"main", "progress"}
    /\ threads[t].pc = "work"
    /\ threads' = [threads EXCEPT ![t].pc = "finally"]
    /\ UNCHANGED gpc
    /\ UNCHANGED notGui

\* gui.py:234-236, main.py:80-83: a first progress update raises on a closed
\* window, before auth is bound
ThreadProgressRaise(t) ==
    /\ gpc \in {"main", "progress"}
    /\ threads[t].pc = "start"
    /\ threads[t].win = "closed"
    /\ threads' = [threads EXCEPT ![t].pc = "finally"]
    /\ UNCHANGED gpc
    /\ UNCHANGED notGui

\* main.py:178-181, gui.py:239-252: the finally block, then the thread ends
ThreadReturn(t) ==
    /\ gpc \in {"main", "progress"}
    /\ threads[t].pc = "finally"
    /\ threads' = [threads EXCEPT
                      ![t].driver = Finally(threads[t].auth, threads[t].driver),
                      ![t].pc = "dead"]
    /\ UNCHANGED gpc
    /\ UNCHANGED notGui

----------------------------------------------------------------------------
(* The specifications                                                      *)

Init == SchedInit /\ AuthIdle /\ ScrapeIdle /\ GuiIdle

Next ==
    \/ SchedStart
    \/ SchedStartRun
    \/ SchedLoopExit
    \/ SchedAbort
    \/ SchedDeadlineStop
    \/ SchedBeginWait
    \/ SchedPollNoWindow
    \/ SchedPollCancel
    \/ SchedPollTimeout
    \/ UserCancel
    \/ RunBegin
    \/ RunLoginOk
    \/ RunLoginFail
    \/ RunScrape
    \/ RunExport
    \/ RunNotify
    \/ RunFinish
    \/ RunProgressRaise
    \/ RunExcept
    \/ RunExceptRaise
    \/ RunReturn
    \/ RunRaise

Spec == Init /\ [][Next]_vars

\* The scheduler is one sequential program: every run returns (auth.py:126-127,
\* the wait for the Enter key ends) and every poll of the wait returns after
\* its timeout (main.py:226), so a step that can be taken is taken
SpecFair == Spec /\ WF_vars(Next)

InitAuth == SchedIdle /\ AuthInit /\ ScrapeIdle /\ GuiIdle

NextAuth ==
    \/ AuthNew
    \/ AuthSetupOk
    \/ AuthSetupFail
    \/ AuthLoadCookiesOk
    \/ AuthLoadCookiesFail
    \/ AuthCheckSession
    \/ AuthCheckError
    \/ AuthManualLogin
    \/ AuthManualError
    \/ AuthManualResume
    \/ AuthClose

SpecAuth == InitAuth /\ [][NextAuth]_vars

InitScrape == SchedIdle /\ AuthIdle /\ ScrapeInit /\ GuiIdle

NextScrape ==
    \/ PageAddTable
    \/ PageAddRow
    \/ PageAddCell
    \/ ScrapeTimeout
    \/ ScrapeTableData
    \/ ScrapeMultipleTimeout
    \/ ScrapeMultipleTables

SpecScrape == InitScrape /\ [][NextScrape]_vars

InitGui == SchedIdle /\ AuthIdle /\ ScrapeIdle /\ GuiInit

NextGui ==
    \/ GuiRun
    \/ GuiCancelRun
    \/ GuiThreadOver
    \/ GuiExit
    \/ \E t \in 1..Len(threads) : ThreadBegin(t)
    \/ \E t \in 1..Len(threads) : ThreadLogin(t)
    \/ \E t \in 1..Len(threads) : ThreadWork(t)
    \/ \E t \in 1..Len(threads) : ThreadProgressRaise(t)
    \/ \E t \in 1..Len(threads) : ThreadReturn(t)

SpecGui == InitGui /\ [][NextGui]_vars

----------------------------------------------------------------------------
(* Properties of the scheduler                                             *)

HasFailedRun == \E i \in 1..Len(results) : ~results[i]

\* C1: once a run has returned non-success, no further run is started and no
\* inter-run wait follows it: the run counter stays, and the scheduler is
\* neither in a run, nor waiting, nor back at the loop condition.
C1_FailFast ==
    [][HasFailedRun =>
        /\ run_count' = run_count
        /\ spc' \notin {"run", "wait", "while"}
        /\ polls' = polls]_vars

\* C1 witness: run 1 succeeded, run 2 failed, the schedule is over after 2 runs
C1_Witness ==
    /\ results = <<TRUE, FALSE>>
    /\ run_count = 2
    /\ spc = "done"
    /\ outcome = "Aborted"

\* C2: after a successful run that returned at time t (= now at main.py:212)
\* the scheduler enters the inter-run wait only if t + interval <= deadline,
\* and if t + interval > deadline its next step ends the schedule as Completed
\* without a poll; the same holds of every state of the wait, whose run
\* finished at run_finished_at.
C2_DeadlineCheckBeforeWait ==
    [][/\ (spc = "after_run" /\ success /\ spc' # spc
            /\ now + wait_seconds(run_interval_minutes) > end_time)
          => (spc' = "done" /\ outcome' = "Completed" /\ polls' = polls
              /\ run_count' = run_count)
       /\ (spc' = "wait")
          => (run_finished_at' + wait_seconds(run_interval_minutes) <= end_time)
      ]_vars

\* C2 witness: two successful runs, the third would start past the deadline,
\* and the schedule completed after exactly 2 runs without waiting again
C2_Witness ==
    /\ results = <<TRUE, TRUE>>
    /\ run_count = 2
    /\ spc = "done"
    /\ outcome = "Completed"
    /\ "max_runtime_reached" \in sched_log
    /\ run_finished_at + wait_seconds(run_interval_minutes) > end_time
    /\ wait_seconds(run_interval_minutes) > 0

C4_SequentialRuns ==
    [][run_count' # run_count =>
        /\ run_count' = run_count + 1
        /\ rpc = "idle"
        /\ driver # "open"
        /\ Len(results) = run_count]_vars

\* C4 witness: the second run holds an open session after the first returned
C4_Witness ==
    /\ run_count = 2
    /\ spc = "run"
    /\ driver = "open"
    /\ Len(results) = 1

\* C14: whenever run_scraping_process is not executing (it has returned or
\* raised, whichever step of it failed), the browser session the run opened
\* is not open any more.
C14_SessionReleased ==
    rpc = "idle" => driver # "open"

\* C14 witness: a run whose login opened a browser left by an exception
\* raised in its except block; the browser has been closed
C14_Witness ==
    /\ rpc = "idle"
    /\ outcome = "Error"
    /\ ret = "raise"
    /\ failed_at = "login"
    /\ driver = "closed"

\* C15: what a run returns is decided by its steps alone, whatever became of
\* its notifications: it returns True exactly when no step of authentication,
\* extraction, export or progress display failed, and the value on which the
\* scheduler continues or aborts is that same value.  A failed run returns
\* False unless the progress window, closed meanwhile, makes its except block
\* raise.
C15_NotificationIsolation ==
    /\ ret # "none" => (ret = "True" <=> failed_at = "none")
    /\ spc = "after_run" => (success <=> failed_at = "none")
    /\ ret = "raise" => ProgressUpdateMayRaise

\* C15 witness: authentication, extraction and export succeeded, the success
\* notification was not delivered, and the run returned True to the scheduler
C15_Witness ==
    /\ spc = "after_run"
    /\ failed_at = "none"
    /\ sent = {}
    /\ success

\* C16: a schedule driven without a progress window meets no error that a
\* window would have spared it: it never ends in the error handler of
\* run_scheduled_scraping.
C16_AbsentListenerNoOp ==
    ~progress_window =>
        /\ outcome # "Error"
        /\ "schedule_error" \notin sched_log

\* C18: the scheduler logs "schedule completed" only when it ended by
\* reaching the deadline: a schedule stopped by a failed run ends as Aborted
\* and has not logged that line.
C18_AbortedIsDistinct ==
    /\ outcome = "Aborted" => "schedule_completed" \notin sched_log
    /\ "schedule_completed" \in sched_log => outcome = "Completed"

\* a scheduled run other than the first one starts in this step; run_started_at
\* and run_finished_at are still those of the run before it
NextRunStarts == run_count' = run_count + 1 /\ run_count >= 1

\* C19 as stated: the time between the starts of two consecutive runs is the
\* configured interval.
C19_StartToStart_Stated ==
    [][NextRunStarts =>
          now - run_started_at = run_interval_minutes * TicksPerMinute]_vars

\* C19 amended: the time between the return of a run and the start of the
\* next one is at least the configured interval, so the time between their
\* starts is at least the interval plus the time the first of them took.
C19_IntervalAfterReturn ==
    [][NextRunStarts =>
          /\ now - run_finished_at >= run_interval_minutes * TicksPerMinute
          /\ run_finished_at > run_started_at
          /\ now - run_started_at >=
                run_interval_minutes * TicksPerMinute
                  + (run_finished_at - run_started_at)]_vars

\* C19 witness: interval of one minute (two ticks); the first run took one
\* tick, the wait two polls, and the second run has started three ticks
\* after the first
C19_Witness ==
    /\ run_count = 2
    /\ rpc = "start"
    /\ run_interval_minutes = 1
    /\ run_finished_at = 1
    /\ polls = 2
    /\ run_started_at = 3

\* C20 as stated: the deadline never changes once computed, and the time
\* since the start of the schedule never exceeds the maximum runtime.
C20_HardCeiling_Stated ==
    [][/\ spc # "idle" => end_time' = end_time
       /\ spc' # "idle" => now' <= end_time']_vars

\* C20 amended: the deadline never changes once computed; no run starts at
\* or after it, and time passes only in a run or a poll that began before it;
\* the schedule may therefore end after the deadline, by less than the
\* length of its last run or poll.
C20_DeadlineFixed ==
    [][/\ spc # "idle" => end_time' = end_time
       /\ run_count' # run_count => now < end_time
       /\ now' > now => now < end_time]_vars

\* C20 witness: the schedule has ended after the deadline, its last run
\* having started before it
C20_Witness ==
    /\ spc = "done"
    /\ outcome = "Completed"
    /\ now > end_time
    /\ run_started_at < end_time
    /\ run_finished_at = now

\* C26: every run the scheduler has started began strictly before the
\* deadline, a run after a wait that the deadline cut short included, and
\* with a maximum runtime of 0 no run has started.
C26_NoRunAtOrAfterDeadline ==
    /\ run_count > 0 => run_started_at < end_time
    /\ spc = "run" => now < end_time
    /\ max_runtime_hours = 0 => run_count = 0

\* C26 witness: the wait after the first run was cut short at its first
\* poll because the deadline was reached, and the schedule ended without a
\* second run
C26_Witness ==
    /\ spc = "done"
    /\ outcome = "Completed"
    /\ run_count = 1
    /\ polls = 1
    /\ polls < wait_seconds(run_interval_minutes)
    /\ now >= end_time
    /\ "max_runtime_reached" \notin sched_log

\* C27: a run returns True exactly when login returned True, the scraped
\* DataFrame was not empty and the export returned a path; scraping is called
\* only after a successful login, the export only with data, and the success
\* notification is sent only after a successful export.
C27_RunSuccessCondition ==
    /\ ret # "none" => (ret = "True" <=> {"login", "data", "file"} \subseteq steps)
    /\ "scrape_called" \in steps => "login" \in steps
    /\ "export_called" \in steps => "data" \in steps
    /\ "success" \in sent => "file" \in steps

\* C28: a run sends at most one outcome notification, and never the error
\* notification once it has sent the success notification.
C28_OneOutcomeNotification ==
    /\ Cardinality(sent) <= 1
    /\ "success" \in sent => "error" \notin sent

\* C29: a cancellation signal raised while a run executes never interrupts
\* that run: the run leaves its steps early only by a failure of login,
\* extraction or export; the scheduler becomes Cancelled only by reading the
\* signal at a poll of the wait; and when the schedule ends by a failed run or
\* by the deadline the queued signal is left unread.
C29_CancelOnlyAtWaitPoll ==
    [][ /\ (spc = "run" /\ pending # "none" /\ rpc # "except" /\ rpc' = "except")
              => failed_at' \in {"login", "empty", "export"}
        /\ (outcome # "Cancelled" /\ outcome' = "Cancelled")
              => (spc = "wait" /\ IsCancelEvent(pending))
        /\ (outcome = "none" /\ outcome' \in {"Aborted", "Completed"})
              => pending' = pending ]_vars

\* C30: when every run returns and time advances through every poll, the
\* scheduler eventually reaches a terminal state, Completed, Aborted or
\* Cancelled, and once it is terminal no further run starts.
C30_SchedulerTerminates ==
    /\ <>(spc = "done" /\ outcome \in {"Completed", "Aborted", "Cancelled"})
    /\ [][spc = "done" => (run_count' = run_count /\ spc' = "done")]_vars

----------------------------------------------------------------------------
(* Properties of Authenticator.login                                       *)

LoginWord == <<"l", "o", "g", "i", "n">>

\* login() has returned
LoginReturned == apc \in {"returned", "idle"} /\ login_result # "none"

\* the persisted cookies were applied and the page reached from target_url
\* has "login" in its URL, in any letter case
ReuseRejected ==
    /\ load_result = "True"
    /\ probe_url # NoUrl
    /\ Contains(lower(probe_url), LoginWord)

\* the persisted cookies were applied and the page reached from target_url
\* has no "login" in its URL
ReuseAccepted ==
    /\ load_result = "True"
    /\ probe_url # NoUrl
    /\ ~Contains(lower(probe_url), LoginWord)

\* C5: when the cookie file was loaded and the URL reached from target_url does
\* not contain "login" in any letter case, login has returned True and
\* manual_login was not called.
C5_SessionReuse ==
    ReuseAccepted =>
        /\ LoginReturned
        /\ login_result = "True"
        /\ ~manual_invoked
        /\ ~resumed

\* C5 witness: cookies of an earlier session were applied, the browser ended on
\* the target page and login returned True
C5_Witness ==
    /\ cookies_file = Jar(1)
    /\ session = 2
    /\ browser_cookies = Jar(1)
    /\ probe_url = U_kpi
    /\ login_result = "True"
    /\ ~manual_invoked

\* C6: when the cookies are rejected (URL with "login" in any letter case) or
\* load_cookies returned False, login does not return at that point:
\* manual_login is called, and what login returns is what manual_login returned.
C6_ReuseRejectedFallsThrough ==
    (load_result = "False" \/ ReuseRejected) =>
        \/ apc \in {"manual", "input"} /\ login_result = "none"
        \/ LoginReturned /\ manual_invoked /\ login_result = manual_result

\* C6 witness: the cookies led to an upper-case LOGIN page, manual login then
\* succeeded
C6_Witness ==
    /\ ReuseRejected
    /\ probe_url = U_LOGIN
    /\ LoginReturned
    /\ manual_invoked
    /\ manual_result = "True"
    /\ login_result = "True"

\* C7: when input() returns with the browser still on login_url, manual_login
\* and login return False and the cookie file is as it was.
C7_FailedManualLogin ==
    [][(apc = "input" /\ resumed' /\ current_url' = login_url) =>
        /\ manual_result' = "False"
        /\ login_result' = "False"
        /\ cookies_file' = cookies_file]_vars

\* C7 witness: the operator resumed on the login page; an existing cookie file
\* is still the one of the earlier session
C7_Witness ==
    /\ resumed
    /\ current_url = login_url
    /\ login_result = "False"
    /\ cookies_file = Jar(0)
    /\ ReuseRejected

\* C8: whenever manual_login has returned True, the cookie file holds the
\* cookies captured from this session.
C8_ManualSuccessPersists ==
    (manual_result = "True") => cookies_file = Jar(session)

\* C21: whenever login has returned True, by reuse of the persisted cookies or
\* by manual login, the cookie file has been rewritten with the cookies of
\* the session that has just authenticated.
C21_StoreRewrittenOnSuccess ==
    (login_result = "True") => cookies_file = Jar(session)

----------------------------------------------------------------------------
(* Properties of the table parser                                          *)

\* the rows of the table scrape_table_data selected
TargetRows == page[target_table]

\* cell i of a data row as the contract states it: the trimmed text of the
\* cell where the row has one, the empty string where it has none
Normalised(row, i) == IF i <= Len(row) THEN get_text(row[i]) ELSE <<>>

\* C9: every data row of the dataset has as many cells as there are headers;
\* for a table whose first row has H > 0 cells the dataset has H headers and
\* one row per later row of the table, whose i-th cell (i <= H) is the trimmed
\* i-th cell of that row, or the empty string when the row is shorter; cells
\* beyond H are cut.
C9_RowWidth ==
    kpc = "done" =>
        /\ \A j \in 1..Len(df.rows) : Len(df.rows[j]) = Len(df.columns)
        /\ (target_table # 0 /\ TargetRows # <<>> /\ Len(TargetRows[1]) > 0) =>
              /\ Len(df.columns) = Len(TargetRows[1])
              /\ Len(df.rows) = Len(TargetRows) - 1
              /\ \A j \in 1..(Len(TargetRows) - 1) :
                    \A i \in 1..Len(TargetRows[1]) :
                        df.rows[j][i] = Normalised(TargetRows[j + 1], i)

\* C9 witness: two headers, a row of three cells (cut to two) and a row
\* without cells (padded to two empty strings)
C9_Witness ==
    /\ kpc = "done"
    /\ Len(page) = 1
    /\ Len(page[1]) = 3
    /\ Len(page[1][1]) = 2
    /\ page[1][2] = <<T_a, T_blank, T_a>>
    /\ page[1][3] = <<>>
    /\ df.rows = << <<get_text(T_a), <<>> >>, << <<>>, <<>> >> >>

\* C10: the selected table has the greatest number of rows of all tables of
\* the page, and every table before it in document order has fewer rows.
C10_TableSelection ==
    (kpc = "done" /\ page # <<>>) =>
        /\ target_table \in 1..Len(page)
        /\ \A j \in 1..Len(page) : Len(page[j]) <= Len(page[target_table])
        /\ \A j \in 1..(target_table - 1) :
              Len(page[j]) < Len(page[target_table])

\* C10 witness: tables of 1, 2 and 2 rows: the second is selected
C10_Witness ==
    /\ kpc = "done"
    /\ Len(page) = 3
    /\ Len(page[1]) = 1
    /\ Len(page[2]) = 2
    /\ Len(page[3]) = 2
    /\ target_table = 2

\* C11: once scrape_table_data has ended on a page without a <table>, it has
\* returned (the error stayed inside it) and the dataset it returned has no
\* column and no row.
C11_NoTablePage ==
    (page = <<>> /\ kpc \notin {"render", "listed"}) =>
        /\ kpc = "done"
        /\ df.columns = <<>>
        /\ df.rows = <<>>

\* C11 witness: the wait for a <table> timed out on a page without one and
\* the call has returned
C11_Witness ==
    /\ page = <<>>
    /\ kpc = "done"
    /\ scrape_error

\* C12: no data row of the returned dataset has only empty cells: a row of
\* the table whose cells are all empty after trimming, or that has no cell,
\* is not in the dataset.
C12_EmptyRowsDropped ==
    kpc = "done" =>
        \A j \in 1..Len(df.rows) :
            \E i \in 1..Len(df.rows[j]) : df.rows[j][i] # <<>>

\* a row of the table with a cell whose trimmed text is not empty
NonEmptyRow(row) == \E i \in 1..Len(row) : get_text(row[i]) # <<>>

\* a row of the table as a data row of the given width
RowOf(row, width) == [i \in 1..width |-> Normalised(row, i)]

\* the first row of the selected table is the header
HeaderIsFirstRow ==
    /\ Len(df.columns) = Len(TargetRows[1])
    /\ \A i \in 1..Len(TargetRows[1]) :
          get_text(TargetRows[1][i]) # <<>> =>
              df.columns[i] = get_text(TargetRows[1][i])

\* every later non-empty row of the selected table yields one data row, in
\* document order
NonEmptyRowsYield ==
    /\ Cardinality({k \in 2..Len(TargetRows) : NonEmptyRow(TargetRows[k])})
          <= Len(df.rows)
    /\ \A k \in 2..Len(TargetRows) :
          NonEmptyRow(TargetRows[k]) =>
              \E j \in 1..(k - 1) :
                  /\ j <= Len(df.rows)
                  /\ df.rows[j] = RowOf(TargetRows[k], Len(df.columns))

\* a page of two tables, the second with more rows and a first row of two
\* named cells: the dataset has these two headers and one row of two cells
\* for each later row, in document order
ScenarioHolds ==
    (/\ kpc = "done"
     /\ Len(page) = 2
     /\ Len(page[1]) < Len(page[2])
     /\ Len(page[2][1]) = 2
     /\ \A i \in 1..2 : get_text(page[2][1][i]) # <<>>
     /\ \A k \in 2..Len(page[2]) : NonEmptyRow(page[2][k])) =>
        /\ target_table = 2
        /\ df.columns = <<get_text(page[2][1][1]), get_text(page[2][1][2])>>
        /\ Len(df.rows) = Len(page[2]) - 1
        /\ \A j \in 1..Len(df.rows) :
              /\ Len(df.rows[j]) = 2
              /\ df.rows[j] = RowOf(page[2][j + 1], 2)

\* C13 as stated: the report page yields its two headers and one row of two
\* cells per later row, and for every selected table with a first row, that
\* row is the header and every later non-empty row yields one data row.
C13_EndToEnd_Stated ==
    /\ ScenarioHolds
    /\ (kpc = "done" /\ page # <<>> /\ TargetRows # <<>>) =>
          HeaderIsFirstRow /\ NonEmptyRowsYield

\* C13 amended: the report page yields its two headers and one row of two
\* cells per later row; for every selected table with a first row, that row
\* is the header; when the first row has at least one cell every later
\* non-empty row yields one data row, and when it has none the dataset has no
\* row.
C13_EndToEnd ==
    /\ ScenarioHolds
    /\ (kpc = "done" /\ page # <<>> /\ TargetRows # <<>>) =>
          /\ HeaderIsFirstRow
          /\ Len(TargetRows[1]) > 0 => NonEmptyRowsYield
          /\ Len(TargetRows[1]) = 0 => df.rows = <<>>

\* C13 witness: the report page of 2 and 9 rows has been scraped: headers
\* Date and Revenue, 8 rows, the first one cut from three cells to two
C13_Witness ==
    /\ kpc = "done"
    /\ Len(page) = 2
    /\ Len(page[1]) = 2
    /\ Len(page[2]) = 9
    /\ page[2][1] = <<T_Date, T_Revenue>>
    /\ page[2][2] = <<T_blank, T_a, T_a>>
    /\ df.columns = << <<"D", "a", "t", "e">>,
                       <<"R", "e", "v", "e", "n", "u", "e">> >>
    /\ Len(df.rows) = 8
    /\ df.rows[1] = << <<>>, <<"a">> >>

\* C22: when no <table> appeared within the timeout the outcome of the run is
\* a fetch error, which differs from the outcome for a page whose table has a
\* header row and no data row.
C22_RenderTimeoutIsFetchError ==
    (kpc = "done" /\ scrape_error) =>
        /\ RunResult(df) = "FetchError"
        /\ RunResult(df) # RunResult(parse_table_to_dataframe(<< <<T_a>> >>))

\* C24: the dataset has one header per cell of the first row of the selected
\* table, in order: the trimmed text of the cell when it is not empty, else
\* the placeholder that carries the position of the cell, counted from 1.
C24_HeaderExtraction ==
    (kpc = "done" /\ page # <<>> /\ TargetRows # <<>>) =>
        /\ Len(df.columns) = Len(TargetRows[1])
        /\ \A i \in 1..Len(TargetRows[1]) :
              df.columns[i] = IF get_text(TargetRows[1][i]) = <<>>
                              THEN <<"#", ToString(i)>>
                              ELSE get_text(TargetRows[1][i])

\* C24 witness: a first row of a blank cell, a named cell and a blank cell
C24_Witness ==
    /\ kpc = "done"
    /\ Len(page) = 1
    /\ Len(page[1]) = 1
    /\ page[1][1] = <<T_blank, T_a, T_blank>>
    /\ df.columns = << <<"#", "1">>, <<"a">>, <<"#", "3">> >>

\* the tables of the page whose own dataset is not empty, by position
TablesWithData ==
    SelectSeq([i \in 1..Len(page) |-> i],
              LAMBDA i : ~empty(parse_table_to_dataframe(page[i])))

----------------------------------------------------------------------------
(* Properties of the settings window                                       *)

\* the threads whose Authenticator has a live driver
LiveSessions == {t \in 1..Len(threads) : threads[t].driver = "open"}

\* the threads inside Authenticator.login, which reads and writes cookies.pkl
InLogin == {t \in 1..Len(threads) : threads[t].pc = "login"}

\* C17: at most one browser session is live at any time, and at most one
\* login, the only user of the cookie file, is under way, however the Run
\* button is pressed and runs are cancelled.
C17_OneActiveSession ==
    /\ Cardinality(LiveSessions) <= 1
    /\ Cardinality(InLogin) <= 1

\* C23: the browser of a run that was cancelled from the progress window is
\* released: once the settings window has been left and the process is over,
\* no thread's driver is still open.
C23_CleanupOnCancel ==
    gpc = "exited" =>
        \A t \in 1..Len(threads) : threads[t].driver # "open"

====
